---- MODULE Spec2Model ----
(***************************************************************************)
(* FastMCP server composition (src/fastmcp/server/server.py): the          *)
(* MountedServer prefix binding, the TimedCache, and the FastMCP registry  *)
(* with its list (get_tools, ...), dispatch (_mcp_call_tool, ...), add,    *)
(* mount, unmount and import_server operations.                            *)
(*                                                                         *)
(* Strings are sequences of one-character strings, so that startswith,     *)
(* removeprefix and the f-string concatenation are computed, not assumed.  *)
(* A dict is a function whose domain is the set of its keys.               *)
(***************************************************************************)
EXTENDS Integers, Sequences, FiniteSets, TLC

VARIABLES
    leaf,          \* leaf[s][cat]: the managers' dicts, key -> item
    mounts,        \* mounts[s]: _mounted_servers, in the dict's order
    cache,         \* cache[s]: the TimedCache's dict, category -> (value, expires)
    now,           \* datetime.datetime.now()
    on_duplicate,  \* the managers' duplicate_behavior
    nextId,        \* identity of the next item object created
    budget,        \* calls and registrations the behaviour may still make
    last,          \* history: the last call and what it returned
    hist,          \* history: mutations, imports and mount calls so far
    tc,            \* a TimedCache on its own (SpecCache)
    pf,            \* a MountedServer's key methods on their own (SpecPrefix)
    tasks,         \* the list call and the import_server call suspended at an await
    expiration     \* TimedCache.expiration, from settings.cache_expiration_seconds

vars == <<leaf, mounts, cache, now, on_duplicate, nextId, budget, last, hist, tc, pf, tasks,
          expiration>>

-----------------------------------------------------------------------------
(* Bounds *)

MaxSteps == 3       \* calls and clock ticks in one behaviour of Spec
MaxItems == 2       \* items registered in one behaviour of Spec
CatSteps == 3       \* calls and clock ticks in one behaviour of SpecCats
CatItems == 1       \* items registered in one behaviour of SpecCats
MaxTime == 2        \* last clock value of Spec and SpecCats
CacheMaxTime == 4   \* last clock value of SpecCache

(* settings.cache_expiration_seconds, where a specification sets no other *)
Expiration == 2

Servers == {"R", "A", "B"}
Cats == {"tools", "resources", "resource_templates", "prompts"}
ImportOrder == <<"tools", "resources", "resource_templates", "prompts">>

None == <<"None">>
EmptyMap == [k \in {} |-> 0]

-----------------------------------------------------------------------------
(* str.startswith, str.removeprefix, dict.update *)

startswith(key, pre) ==
    /\ Len(pre) <= Len(key)
    /\ SubSeq(key, 1, Len(pre)) = pre

removeprefix(key, pre) ==
    IF startswith(key, pre) THEN SubSeq(key, Len(pre) + 1, Len(key)) ELSE key

update(d1, d2) ==
    [k \in (DOMAIN d1) \cup (DOMAIN d2) |-> IF k \in DOMAIN d2 THEN d2[k] ELSE d1[k]]

-----------------------------------------------------------------------------
(* class MountedServer *)

MountedServer(prefix, server, tool_separator, resource_separator, prompt_separator) ==
    [ prefix |-> prefix,
      server |-> server,
      tool_separator |-> IF tool_separator = None THEN <<"_">> ELSE tool_separator,
      resource_separator |-> IF resource_separator = None THEN <<"+">> ELSE resource_separator,
      prompt_separator |-> IF prompt_separator = None THEN <<"_">> ELSE prompt_separator ]

(* the separator each category's methods use *)
separator(b, cat) ==
    CASE cat = "tools" -> b.tool_separator
      [] cat = "resources" -> b.resource_separator
      [] cat = "resource_templates" -> b.resource_separator
      [] cat = "prompts" -> b.prompt_separator

(* f"{self.prefix}{self.tool_separator}{key}" *)
prefixed_key(b, cat, key) == b.prefix \o separator(b, cat) \o key

(* MountedServer.get_tools etc., given what self.server.get_tools() returned *)
mounted_view(b, cat, items) ==
    [pk \in {prefixed_key(b, cat, k) : k \in DOMAIN items} |->
        items[CHOOSE k \in DOMAIN items : prefixed_key(b, cat, k) = pk]]

match_key(b, cat, key) == startswith(key, b.prefix \o separator(b, cat))

(* a strip that removes the prefix and leaves the separator *)
strip_prefix_only(b, cat, key) == removeprefix(key, b.prefix)

strip_prefix(b, cat, key) == removeprefix(key, b.prefix \o separator(b, cat))

-----------------------------------------------------------------------------
(* class TimedCache; c is self.cache, t is datetime.datetime.now() *)

NOT_FOUND == [found |-> FALSE]
Found(v) == [found |-> TRUE, value |-> v]

(* a set that drops the entries under every other key *)
TimedCache_set_alone(c, key, value, t) ==
    [k \in {key} |-> [value |-> value, expires |-> t + expiration]]

TimedCache_set(c, key, value, t) ==
    [k \in (DOMAIN c) \cup {key} |->
        IF k = key THEN [value |-> value, expires |-> t + expiration] ELSE c[k]]

(* a get that still answers at the expiry time itself *)
TimedCache_get_inclusive(c, key, t) ==
    IF key \in DOMAIN c /\ c[key].expires >= t THEN Found(c[key].value) ELSE NOT_FOUND

(* a get that never finds an entry *)
TimedCache_get_never(c, key, t) == NOT_FOUND

TimedCache_get(c, key, t) ==
    IF key \in DOMAIN c /\ c[key].expires > t THEN Found(c[key].value) ELSE NOT_FOUND

TimedCache_clear == [k \in {} |-> 0]

-----------------------------------------------------------------------------
(* The managers (ToolManager, ResourceManager, PromptManager): a dict per  *)
(* category, has_tool / has_resource / has_prompt, and add_* under the     *)
(* configured duplicate_behavior ("error" raises, "warn" overwrites).      *)

has_key(d, key) == key \in DOMAIN d

manager_add(d, key, item, duplicate_behavior) ==
    IF key \in DOMAIN d /\ duplicate_behavior = "error"
    THEN [ok |-> FALSE, dict |-> d]
    ELSE [ok |-> TRUE, dict |-> [k \in (DOMAIN d) \cup {key} |-> IF k = key THEN item ELSE d[k]]]

-----------------------------------------------------------------------------
(* FastMCP.get_tools / get_resources / get_resource_templates / get_prompts *)
(* on server s for category cat, with the leaf dicts lf and the caches cch  *)
(* as they are when the call starts.  A call that re-enters a server whose  *)
(* own call is still running and missed the cache repeats that call's work  *)
(* without end: Python raises RecursionError and no frame of the chain      *)
(* stores.  Result: ok, the mapping returned, the caches afterwards, and    *)
(* the servers whose get_* was called; visits are the bindings the loops    *)
(* of the call took, in order, each a server and the binding's place.       *)

RECURSIVE get_items(_, _, _, _, _)
RECURSIVE merge_mounted(_, _, _, _, _, _, _)

merge_mounted(s, cat, lf, i, acc, cch, visiting) ==
    IF i > Len(mounts[s])
    THEN [ok |-> TRUE, value |-> acc, cache |-> cch, seen |-> {}, visits |-> <<>>]
    ELSE LET b == mounts[s][i]
             r == get_items(b.server, cat, lf, cch, visiting)
         IN  IF ~r.ok
             THEN [r EXCEPT !.visits = << <<s, i>> >> \o @]
             ELSE LET rest == merge_mounted(s, cat, lf, i + 1,
                                  update(acc, mounted_view(b, cat, r.value)),
                                  r.cache, visiting)
                  IN  [rest EXCEPT !.seen = @ \cup r.seen,
                                   !.visits = << <<s, i>> >> \o r.visits \o @]

get_items(s, cat, lf, cch, visiting) ==
    LET hit == TimedCache_get(cch[s], cat, now)
    IN  IF hit # NOT_FOUND
        THEN [ok |-> TRUE, value |-> hit.value, cache |-> cch, seen |-> {s},
              visits |-> <<>>]
        ELSE IF s \in visiting
        THEN [ok |-> FALSE, value |-> EmptyMap, cache |-> cch, seen |-> {s},
              visits |-> <<>>]
        ELSE LET m == merge_mounted(s, cat, lf, 1, EmptyMap, cch, visiting \cup {s})
             IN  IF ~m.ok
                 THEN [m EXCEPT !.seen = @ \cup {s}]
                 ELSE LET items == update(m.value, lf[s][cat])
                      IN  [ok |-> TRUE,
                           value |-> items,
                           cache |-> [m.cache EXCEPT ![s] = TimedCache_set(@, cat, items, now)],
                           seen |-> m.seen \cup {s},
                           visits |-> m.visits]

-----------------------------------------------------------------------------
(* FastMCP._mcp_call_tool / _mcp_read_resource / _mcp_get_prompt on server *)
(* s.  raises: whether the resource found raises when it is read.          *)
(* Result: the outcome, the server that answered, the key it was asked for *)
(* (the key its NotFoundError names), the item invoked if one was, and the *)
(* forwarded calls made on the way, outermost first.                       *)

Matching(s, kind, key) == {i \in 1..Len(mounts[s]) : match_key(mounts[s][i], kind, key)}

(* the last matching binding instead of the first *)
LastMatch(s, kind, key) ==
    LET hits == Matching(s, kind, key)
    IN  IF hits = {} THEN 0 ELSE CHOOSE i \in hits : \A j \in hits : i >= j

(* the first binding of the dict, whether its match is true or not *)
FirstBinding(s, kind, key) == IF Len(mounts[s]) = 0 THEN 0 ELSE 1

(* for server in self._mounted_servers.values(): if server.match_tool(key) *)
FirstMatch(s, kind, key) ==
    LET hits == Matching(s, kind, key)
    IN  IF hits = {} THEN 0 ELSE CHOOSE i \in hits : \A j \in hits : i <= j

RECURSIVE _mcp_dispatch(_, _, _, _)

(* a forwarding that reports a failed read below the mount as not found *)
ForwardedSwallows(s, kind, key, raises, i) ==
    LET b == mounts[s][i]
        new_key == strip_prefix(b, kind, key)
        sub == _mcp_dispatch(b.server, kind, new_key, raises)
        hops == <<[from |-> s, prefix |-> b.prefix, to |-> b.server, key |-> new_key]>>
                    \o sub.hops
    IN  IF sub.outcome = "ResourceError"
        THEN [outcome |-> "NotFoundError", server |-> sub.server, key |-> sub.key,
              hops |-> hops]
        ELSE [sub EXCEPT !.hops = hops]

(* return await server.server._mcp_read_resource(new_uri): what the mounted *)
(* server returns or raises is what the caller gets                          *)
Forwarded(s, kind, key, raises, i) ==
    LET b == mounts[s][i]
        new_key == strip_prefix(b, kind, key)
        sub == _mcp_dispatch(b.server, kind, new_key, raises)
    IN  [sub EXCEPT !.hops =
            <<[from |-> s, prefix |-> b.prefix, to |-> b.server, key |-> new_key]>> \o @]

Local(s, kind, key, raises) ==
    [outcome |-> IF raises THEN "ResourceError" ELSE "ok",
     server |-> s, key |-> key, item |-> leaf[s][kind][key], hops |-> <<>>]

Unknown(s, key) ==
    [outcome |-> "NotFoundError", server |-> s, key |-> key, hops |-> <<>>]

(* a dispatch that answers not found for a key the server's cached listing *)
(* does not hold                                                            *)
_mcp_dispatch_listed(s, kind, key, raises) ==
    LET hit == TimedCache_get(cache[s], kind, now)
    IN  IF hit # NOT_FOUND /\ key \notin DOMAIN hit.value
        THEN Unknown(s, key)
        ELSE IF has_key(leaf[s][kind], key)
        THEN Local(s, kind, key, raises)
        ELSE LET i == FirstMatch(s, kind, key)
             IN  IF i = 0 THEN Unknown(s, key) ELSE Forwarded(s, kind, key, raises, i)

(* a dispatch that asks the mounts before the local manager *)
_mcp_dispatch_mounts_first(s, kind, key, raises) ==
    LET i == FirstMatch(s, kind, key)
    IN  IF i # 0 THEN Forwarded(s, kind, key, raises, i)
        ELSE IF has_key(leaf[s][kind], key) THEN Local(s, kind, key, raises)
        ELSE Unknown(s, key)

_mcp_dispatch(s, kind, key, raises) ==
    IF has_key(leaf[s][kind], key)
    THEN Local(s, kind, key, raises)
    ELSE LET i == FirstMatch(s, kind, key)
         IN  IF i = 0 THEN Unknown(s, key) ELSE Forwarded(s, kind, key, raises, i)

_mcp_call_tool(s, key) == _mcp_dispatch(s, "tools", key, FALSE)

_mcp_read_resource(s, uri, raises) == _mcp_dispatch(s, "resources", uri, raises)

_mcp_get_prompt(s, name) == _mcp_dispatch(s, "prompts", name, FALSE)

-----------------------------------------------------------------------------
(* self._mounted_servers: assignment to a prefix already present keeps the *)
(* prefix's place in the dict's order; pop removes it.                     *)

mounted_index(ms, prefix) ==
    LET at == {i \in 1..Len(ms) : ms[i].prefix = prefix}
    IN  IF at = {} THEN 0 ELSE CHOOSE i \in at : TRUE

(* an assignment that adds a binding beside the one the prefix has *)
mounted_append(ms, b) == Append(ms, b)

mounted_assign(ms, b) ==
    LET i == mounted_index(ms, b.prefix)
    IN  IF i = 0 THEN Append(ms, b) ELSE [ms EXCEPT ![i] = b]

mounted_pop(ms, prefix) ==
    LET i == mounted_index(ms, prefix)
    IN  SubSeq(ms, 1, i - 1) \o SubSeq(ms, i + 1, Len(ms))

-----------------------------------------------------------------------------
(* FastMCP.import_server *)

(* one separator for every category *)
import_separators_same(tool_separator, resource_separator, prompt_separator) ==
    [ tool_separator |-> IF tool_separator = None THEN <<"_">> ELSE tool_separator,
      resource_separator |-> IF tool_separator = None THEN <<"_">> ELSE tool_separator,
      prompt_separator |-> IF tool_separator = None THEN <<"_">> ELSE tool_separator ]

import_separators(tool_separator, resource_separator, prompt_separator) ==
    [ tool_separator |-> IF tool_separator = None THEN <<"_">> ELSE tool_separator,
      resource_separator |-> IF resource_separator = None THEN <<"+">> ELSE resource_separator,
      prompt_separator |-> IF prompt_separator = None THEN <<"_">> ELSE prompt_separator ]

(* f"{prefix}{tool_separator}{key}" *)
import_key(prefix, seps, cat, key) == (prefix \o separator(seps, cat)) \o key

import_entries(prefix, seps, cat, items) ==
    [pk \in {import_key(prefix, seps, cat, k) : k \in DOMAIN items} |->
        items[CHOOSE k \in DOMAIN items : import_key(prefix, seps, cat, k) = pk]]

(* One category's loop of manager adds.  Under "error" the loop stops at   *)
(* the first key already present; the keys added before it are whichever   *)
(* the dict's order put first.                                             *)
import_loop(d, entries, duplicate_behavior) ==
    LET dups == (DOMAIN entries) \cap (DOMAIN d)
        others == (DOMAIN entries) \ dups
    IN  IF duplicate_behavior = "error" /\ dups # {}
        THEN {[ok |-> FALSE, dict |-> update(d, [k \in X |-> entries[k]])] : X \in SUBSET others}
        ELSE {[ok |-> TRUE, dict |-> update(d, entries)]}

(* The four loops in order, then self._cache.clear().  An exception leaves *)
(* what was added so far and does not reach the clear.                     *)
RECURSIVE import_from(_, _, _, _, _, _, _, _)

(* an import that clears the destination's cache also when an add raises *)
import_from_clears(dst, prefix, seps, src, i, lf, cch, listed) ==
    IF i > Len(ImportOrder)
    THEN {[ok |-> TRUE, leaf |-> lf,
           cache |-> [cch EXCEPT ![dst] = TimedCache_clear], listed |-> listed]}
    ELSE LET cat == ImportOrder[i]
             r == get_items(src, cat, lf, cch, {})
         IN  IF ~r.ok
             THEN {[ok |-> FALSE, leaf |-> lf, cache |-> r.cache, listed |-> listed]}
             ELSE UNION {
                    IF o.ok
                    THEN import_from(dst, prefix, seps, src, i + 1,
                                     [lf EXCEPT ![dst][cat] = o.dict], r.cache,
                                     [listed EXCEPT ![cat] = r.value])
                    ELSE {[ok |-> FALSE, leaf |-> [lf EXCEPT ![dst][cat] = o.dict],
                           cache |-> [r.cache EXCEPT ![dst] = TimedCache_clear],
                           listed |-> [listed EXCEPT ![cat] = r.value]]}
                    : o \in import_loop(lf[dst][cat],
                                        import_entries(prefix, seps, cat, r.value),
                                        on_duplicate) }

import_from(dst, prefix, seps, src, i, lf, cch, listed) ==
    IF i > Len(ImportOrder)
    THEN {[ok |-> TRUE, leaf |-> lf,
           cache |-> [cch EXCEPT ![dst] = TimedCache_clear], listed |-> listed]}
    ELSE LET cat == ImportOrder[i]
             r == get_items(src, cat, lf, cch, {})
         IN  IF ~r.ok
             THEN {[ok |-> FALSE, leaf |-> lf, cache |-> r.cache, listed |-> listed]}
             ELSE UNION {
                    IF o.ok
                    THEN import_from(dst, prefix, seps, src, i + 1,
                                     [lf EXCEPT ![dst][cat] = o.dict], r.cache,
                                     [listed EXCEPT ![cat] = r.value])
                    ELSE {[ok |-> FALSE, leaf |-> [lf EXCEPT ![dst][cat] = o.dict],
                           cache |-> r.cache, listed |-> [listed EXCEPT ![cat] = r.value]]}
                    : o \in import_loop(lf[dst][cat],
                                        import_entries(prefix, seps, cat, r.value),
                                        on_duplicate) }

-----------------------------------------------------------------------------
(* History *)

NoResult == [outcome |-> "none", server |-> "", key |-> <<>>, hops |-> <<>>]
NoListing == [c \in Cats |-> EmptyMap]

Event(op, server) ==
    [op |-> op, server |-> server, cat |-> "", key |-> <<>>, ok |-> TRUE,
     value |-> EmptyMap, first |-> FALSE, res |-> NoResult, source |-> "",
     listed |-> NoListing, error |-> "", raises |-> FALSE, was |-> "",
     dropped |-> EmptyMap, suspended |-> FALSE]

InitHist == [pending |-> [s \in Servers |-> {}], imported |-> {}, bound |-> {}]

(* s was mutated: its next list call of each category is the first since *)
Mutated(h, s) == [h EXCEPT !.pending[s] = Cats]

InitTc == [cache |-> TimedCache_clear, log |-> EmptyMap, op |-> "none",
           key |-> "", at |-> 0, out |-> NOT_FOUND]

(* no call is suspended *)
Idle == [pc |-> "idle"]
NoTasks == [list |-> Idle, import |-> Idle]

InitPf ==
    [stage |-> "none", b |-> MountedServer(<<>>, "A", None, None, None),
     given |-> <<None, None, None>>, cat |-> "tools", orig |-> <<>>, key |-> <<>>,
     listed |-> FALSE, matched |-> FALSE, stripped |-> <<>>]

-----------------------------------------------------------------------------
(* FastMCP.__init__: empty managers, no mounts, an empty cache *)

ConstructedWith(lf, policies, id, calls, items, seconds) ==
    /\ expiration = seconds
    /\ leaf = lf
    /\ mounts = [s \in Servers |-> <<>>]
    /\ cache = [s \in Servers |-> TimedCache_clear]
    /\ now = 0
    /\ on_duplicate \in policies
    /\ nextId = id
    /\ budget = [calls |-> calls, items |-> items]
    /\ last = Event("init", "")
    /\ hist = InitHist
    /\ tc = InitTc
    /\ tasks = NoTasks

Constructed(lf, policies, id, calls, items) ==
    ConstructedWith(lf, policies, id, calls, items, Expiration)

NoItems == [s \in Servers |-> [c \in Cats |-> EmptyMap]]

Init ==
    /\ Constructed(NoItems, {"warn", "error"}, 1, MaxSteps, MaxItems)
    /\ pf = InitPf

-----------------------------------------------------------------------------
(* add_tool, add_resource, add_resource_fn, add_prompt: the manager's add, *)
(* then self._cache.clear(); cleared is what the server's cache becomes.   *)

Registered(op, s, cat, key, cleared) ==
    LET r == manager_add(leaf[s][cat], key, nextId, on_duplicate)
    IN  /\ budget.items > 0
        /\ budget.calls > 0
        /\ IF r.ok
           THEN /\ leaf' = [leaf EXCEPT ![s][cat] = r.dict]
                /\ cache' = [cache EXCEPT ![s] = cleared]
                /\ nextId' = nextId + 1
                /\ budget' = [calls |-> budget.calls - 1, items |-> budget.items - 1]
                /\ hist' = Mutated(hist, s)
           ELSE UNCHANGED <<leaf, cache, nextId, budget, hist>>
        /\ last' = [Event(op, s) EXCEPT !.cat = cat, !.key = key, !.ok = r.ok]
        /\ UNCHANGED <<mounts, now, on_duplicate, expiration, tc, pf, tasks>>

(* a registration that leaves the cache as it is *)
RegisterKeepsCache(op, s, cat, key) == Registered(op, s, cat, key, cache[s])

Register(op, s, cat, key) == Registered(op, s, cat, key, TimedCache_clear)

add_tool(s, name) == Register("add_tool", s, "tools", name)

add_resource(s, key) == Register("add_resource", s, "resources", key)

add_resource_fn(s, uri, is_template) ==
    Register("add_resource_fn", s,
             IF is_template THEN "resource_templates" ELSE "resources", uri)

add_prompt(s, name) == Register("add_prompt", s, "prompts", name)

-----------------------------------------------------------------------------
(* FastMCP.mount and FastMCP.unmount *)

mount(s, prefix, server, tool_separator, resource_separator, prompt_separator) ==
    LET b == MountedServer(prefix, server, tool_separator, resource_separator,
                           prompt_separator)
    IN  /\ budget.calls > 0
        /\ mounts' = [mounts EXCEPT ![s] = mounted_assign(@, b)]
        /\ cache' = [cache EXCEPT ![s] = TimedCache_clear]
        /\ budget' = [budget EXCEPT !.calls = @ - 1]
        /\ hist' = [Mutated(hist, s) EXCEPT !.bound =
                       {x \in @ : ~(x[1] = s /\ x[2] = prefix)} \cup {<<s, prefix, server>>}]
        /\ last' = [Event("mount", s) EXCEPT
                       !.key = prefix, !.source = server,
                       !.was = IF mounted_index(mounts[s], prefix) = 0 THEN ""
                               ELSE mounts[s][mounted_index(mounts[s], prefix)].server]
        /\ UNCHANGED <<leaf, now, on_duplicate, expiration, nextId, tc, pf, tasks>>

(* self._mounted_servers.pop(prefix) raises KeyError for an absent prefix *)
unmount(s, prefix) ==
    IF mounted_index(mounts[s], prefix) = 0
    THEN /\ last' = [Event("unmount", s) EXCEPT !.key = prefix, !.ok = FALSE,
                                               !.error = "KeyError"]
         /\ UNCHANGED <<leaf, mounts, cache, now, on_duplicate, expiration, nextId, budget, hist, tc, pf, tasks>>
    ELSE /\ budget.calls > 0
         /\ mounts' = [mounts EXCEPT ![s] = mounted_pop(@, prefix)]
         /\ cache' = [cache EXCEPT ![s] = TimedCache_clear]
         /\ budget' = [budget EXCEPT !.calls = @ - 1]
         /\ hist' = [Mutated(hist, s) EXCEPT !.bound =
                        {x \in @ : ~(x[1] = s /\ x[2] = prefix)}]
         /\ last' = [Event("unmount", s) EXCEPT !.key = prefix]
         /\ UNCHANGED <<leaf, now, on_duplicate, expiration, nextId, tc, pf, tasks>>

-----------------------------------------------------------------------------
(* FastMCP.import_server; bindings is what _mounted_servers becomes *)

Imported(s, prefix, server, tool_separator, resource_separator, prompt_separator, bindings) ==
    LET seps == import_separators(tool_separator, resource_separator, prompt_separator)
    IN  /\ budget.calls > 0
        /\ \E o \in import_from(s, prefix, seps, server, 1, leaf, cache, NoListing) :
              /\ leaf' = o.leaf
              /\ cache' = o.cache
              /\ hist' = IF o.ok
                         THEN [Mutated(hist, s) EXCEPT !.imported = @ \cup {<<s, server>>}]
                         ELSE hist
              /\ last' = [Event("import_server", s) EXCEPT
                             !.key = prefix, !.source = server, !.ok = o.ok,
                             !.listed = o.listed]
        /\ mounts' = [mounts EXCEPT ![s] = bindings]
        /\ budget' = [budget EXCEPT !.calls = @ - 1]
        /\ UNCHANGED <<now, on_duplicate, expiration, nextId, tc, pf, tasks>>

(* an import that binds the source as mount does, besides copying *)
import_server_binds(s, prefix, server, tool_separator, resource_separator, prompt_separator) ==
    Imported(s, prefix, server, tool_separator, resource_separator, prompt_separator,
             mounted_assign(mounts[s],
                 MountedServer(prefix, server, tool_separator, resource_separator,
                               prompt_separator)))

import_server(s, prefix, server, tool_separator, resource_separator, prompt_separator) ==
    Imported(s, prefix, server, tool_separator, resource_separator, prompt_separator,
             mounts[s])

-----------------------------------------------------------------------------
(* A list call (get_tools, ...) and the dispatch calls.  A list call       *)
(* answered from the caches changes no state of the program.               *)

list_items(s, cat) ==
    LET r == get_items(s, cat, leaf, cache, {})
    IN  /\ (r.cache # cache) => budget.calls > 0
        /\ cache' = r.cache
        /\ budget' = IF r.cache # cache THEN [budget EXCEPT !.calls = @ - 1] ELSE budget
        /\ hist' = IF r.ok
                   THEN [hist EXCEPT !.pending =
                            [x \in Servers |-> IF x \in r.seen THEN @[x] \ {cat} ELSE @[x]]]
                   ELSE hist
        /\ last' = [Event("list", s) EXCEPT !.cat = cat, !.ok = r.ok, !.value = r.value,
                                            !.first = (cat \in hist.pending[s])]
        /\ UNCHANGED <<leaf, mounts, now, on_duplicate, expiration, nextId, tc, pf, tasks>>

Answered(s, kind, key, raises, res) ==
    /\ last' = [Event("dispatch", s) EXCEPT !.cat = kind, !.key = key, !.res = res,
                                            !.raises = raises]
    /\ UNCHANGED <<leaf, mounts, cache, now, on_duplicate, expiration, nextId, budget, hist, tc, pf, tasks>>

call_tool(s, key) == Answered(s, "tools", key, FALSE, _mcp_call_tool(s, key))

read_resource(s, uri, raises) ==
    Answered(s, "resources", uri, raises, _mcp_read_resource(s, uri, raises))

get_prompt(s, name) == Answered(s, "prompts", name, FALSE, _mcp_get_prompt(s, name))

(* time passes *)
Tick ==
    /\ now < MaxTime
    /\ budget.calls > 0
    /\ now' = now + 1
    /\ budget' = [budget EXCEPT !.calls = @ - 1]
    /\ last' = Event("tick", "")
    /\ UNCHANGED <<leaf, mounts, cache, on_duplicate, expiration, nextId, hist, tc, pf, tasks>>

-----------------------------------------------------------------------------
(* Spec: three servers and their tools, from construction.  R may mount or *)
(* import A and B, A may mount or import B.                                *)

Name == <<"a">>
Prefixes == {<<"c">>, <<"c", "_", "c">>}
DefaultSeparators == import_separators(None, None, None)

(* the keys asked for: a, c<sep>a, c_c<sep>a, c<sep>c<sep>a *)
Keys(cat) ==
    {Name}
    \cup {import_key(p, DefaultSeparators, cat, Name) : p \in Prefixes}
    \cup {import_key(<<"c">>, DefaultSeparators, cat,
                     import_key(<<"c">>, DefaultSeparators, cat, Name))}

(* the keys registered: a and c<sep>a *)
AddKeys(cat) == {Name, import_key(<<"c">>, DefaultSeparators, cat, Name)}

Below(s) == CASE s = "R" -> {"A", "B"} [] s = "A" -> {"B"} [] s = "B" -> {}

Next ==
    \/ \E s \in Servers, k \in AddKeys("tools") : add_tool(s, k)
    \/ \E s \in Servers, p \in Prefixes : \E t \in Below(s) :
          mount(s, p, t, None, None, None)
    \/ \E s \in Servers, p \in Prefixes : unmount(s, p)
    \/ \E s \in Servers : \E t \in Below(s) :
          import_server(s, <<"c">>, t, None, None, None)
    \/ \E s \in Servers : list_items(s, "tools")
    \/ \E s \in Servers, k \in Keys("tools") : call_tool(s, k)
    \/ Tick

Spec == Init /\ [][Next]_vars

-----------------------------------------------------------------------------
(* SpecCats: every category.  A and B start with one item of each,         *)
(* registered by their modules before the servers are composed; R mounts   *)
(* and imports A, A mounts B, and R and A register, list and dispatch.     *)

OneOfEach(first) ==
    [c \in Cats |-> [k \in {Name} |->
        CASE c = "tools" -> first [] c = "resources" -> first + 1
          [] c = "resource_templates" -> first + 2 [] c = "prompts" -> first + 3]]

InitCats ==
    /\ Constructed([NoItems EXCEPT !["A"] = OneOfEach(1), !["B"] = OneOfEach(5)],
                   {"warn", "error"}, 9, CatSteps, CatItems)
    /\ pf = InitPf

Pair == {"R", "A"}

NextCats ==
    \/ \E s \in Pair, k \in AddKeys("tools") : add_tool(s, k)
    \/ \E s \in Pair, k \in AddKeys("resources") : add_resource(s, k)
    \/ \E s \in Pair, k \in AddKeys("resources"), t \in BOOLEAN : add_resource_fn(s, k, t)
    \/ \E s \in Pair, k \in AddKeys("prompts") : add_prompt(s, k)
    \/ \E p \in Prefixes : mount("R", p, "A", None, None, None)
    \/ mount("A", <<"c">>, "B", None, None, None)
    \/ \E s \in Pair, p \in Prefixes : unmount(s, p)
    \/ import_server("R", <<"c">>, "A", None, None, None)
    \/ \E s \in Pair, c \in Cats : list_items(s, c)
    \/ \E s \in Pair, k \in Keys("tools") : call_tool(s, k)
    \/ \E s \in Pair, k \in Keys("resources"), e \in BOOLEAN : read_resource(s, k, e)
    \/ \E s \in Pair, k \in Keys("prompts") : get_prompt(s, k)
    \/ Tick

SpecCats == InitCats /\ [][NextCats]_vars

-----------------------------------------------------------------------------
(* SpecFailedImport: R refuses duplicates and already holds the resource   *)
(* c+a; A holds the tool a; B holds the tool a and the resource a.  R      *)
(* mounts and imports A and B under the prefix c.                          *)

InitFailedImport ==
    /\ Constructed([NoItems EXCEPT
                       !["R"]["resources"] = [k \in {<<"c", "+", "a">>} |-> 4],
                       !["A"]["tools"] = [k \in {Name} |-> 1],
                       !["B"]["tools"] = [k \in {Name} |-> 2],
                       !["B"]["resources"] = [k \in {Name} |-> 3]],
                   {"error"}, 5, CatSteps, CatItems)
    /\ pf = InitPf

NextFailedImport ==
    \/ \E t \in {"A", "B"} : mount("R", <<"c">>, t, None, None, None)
    \/ unmount("R", <<"c">>)
    \/ \E t \in {"A", "B"} : import_server("R", <<"c">>, t, None, None, None)
    \/ \E s \in Servers, c \in {"tools", "resources"} : list_items(s, c)
    \/ \E k \in Keys("tools") : call_tool("R", k)
    \/ Tick

SpecFailedImport == InitFailedImport /\ [][NextFailedImport]_vars

-----------------------------------------------------------------------------
(* SpecCache: one TimedCache, its set, get and clear, and the clock.  The  *)
(* log keeps, for every key set since the last clear, the value last set   *)
(* and the time of that set.                                               *)

CacheKeys == {"tools", "prompts"}
CacheValues == {EmptyMap, [k \in {Name} |-> 1], [k \in {Name} |-> 2]}

set(key, value) ==
    /\ tc' = [cache |-> TimedCache_set(tc.cache, key, value, now),
              log |-> [k \in (DOMAIN tc.log) \cup {key} |->
                          IF k = key THEN [value |-> value, at |-> now] ELSE tc.log[k]],
              op |-> "set", key |-> key, at |-> now, out |-> NOT_FOUND]
    /\ UNCHANGED <<leaf, mounts, cache, now, on_duplicate, expiration, nextId, budget, last, hist, pf, tasks>>

get(key) ==
    /\ tc' = [tc EXCEPT !.op = "get", !.key = key, !.at = now,
                        !.out = TimedCache_get(tc.cache, key, now)]
    /\ UNCHANGED <<leaf, mounts, cache, now, on_duplicate, expiration, nextId, budget, last, hist, pf, tasks>>

clear ==
    /\ tc' = [cache |-> TimedCache_clear, log |-> EmptyMap, op |-> "clear",
              key |-> "", at |-> now, out |-> NOT_FOUND]
    /\ UNCHANGED <<leaf, mounts, cache, now, on_duplicate, expiration, nextId, budget, last, hist, pf, tasks>>

CacheTick ==
    /\ now < CacheMaxTime
    /\ now' = now + 1
    /\ UNCHANGED <<leaf, mounts, cache, on_duplicate, expiration, nextId, budget, last, hist, tc, pf, tasks>>

InitCache ==
    /\ Constructed(NoItems, {"warn"}, 1, 0, 0)
    /\ pf = InitPf

NextCache ==
    \/ \E k \in CacheKeys, v \in CacheValues : set(k, v)
    \/ \E k \in CacheKeys : get(k)
    \/ clear
    \/ CacheTick

SpecCache == InitCache /\ [][NextCache]_vars

-----------------------------------------------------------------------------
(* SpecPrefix: a MountedServer built from a prefix and separators, given   *)
(* or defaulted, and a key; the get_* method prefixes the key, match_*     *)
(* tests it, strip_*_prefix strips it after a match, as dispatch does.     *)

PfPrefixes == {<<>>, <<"c">>, <<"c", "_">>, <<"c", "_", "c">>}
PfSeparators ==
    { <<None, None, None>>,
      << <<"+">>, <<"_">>, <<"+">> >>,
      << <<>>, <<"_", "_">>, <<"c">> >> }
PfKeys ==
    { <<"a">>, <<"c", "a">>, <<"_", "a">>, <<"c", "_", "a">>, <<"c", "+", "a">>,
      <<"c", "_", "_", "a">>, <<"c", "_", "c", "_", "a">> }

PfInputs ==
    { [stage |-> "input", b |-> MountedServer(p, "A", t[1], t[2], t[3]), given |-> t,
       cat |-> c, orig |-> k, key |-> k, listed |-> FALSE, matched |-> FALSE,
       stripped |-> <<>>]
      : p \in PfPrefixes, t \in PfSeparators, c \in Cats, k \in PfKeys }

(* the key as MountedServer.get_tools etc. list it *)
get_prefixed ==
    /\ pf.stage = "input"
    /\ pf' = [pf EXCEPT !.key = prefixed_key(pf.b, pf.cat, pf.orig),
                        !.listed = TRUE, !.stage = "listed"]
    /\ UNCHANGED <<leaf, mounts, cache, now, on_duplicate, expiration, nextId, budget, last, hist, tc, tasks>>

match ==
    /\ pf.stage \in {"input", "listed"}
    /\ pf' = [pf EXCEPT !.matched = match_key(pf.b, pf.cat, pf.key), !.stage = "matched"]
    /\ UNCHANGED <<leaf, mounts, cache, now, on_duplicate, expiration, nextId, budget, last, hist, tc, tasks>>

strip ==
    /\ pf.stage = "matched"
    /\ pf.matched
    /\ pf' = [pf EXCEPT !.stripped = strip_prefix(pf.b, pf.cat, pf.key), !.stage = "stripped"]
    /\ UNCHANGED <<leaf, mounts, cache, now, on_duplicate, expiration, nextId, budget, last, hist, tc, tasks>>

InitPrefix ==
    /\ Constructed(NoItems, {"warn"}, 1, 0, 0)
    /\ pf \in PfInputs

NextPrefix ==
    \/ get_prefixed
    \/ match
    \/ strip

SpecPrefix == InitPrefix /\ [][NextPrefix]_vars

-----------------------------------------------------------------------------
(* What the callers of a server observe *)

DispatchKinds == {"tools", "resources", "prompts"}

(* what a list call on s would return now *)
ListView(s, cat) ==
    LET r == get_items(s, cat, leaf, cache, {})
    IN  [ok |-> r.ok, value |-> r.value]

(* what list and dispatch on s would answer now *)
View(s) ==
    [ lists |-> [c \in Cats |-> ListView(s, c)],
      calls |-> [kind \in DispatchKinds |->
                    [k \in Keys(kind) |-> _mcp_dispatch(s, kind, k, FALSE)]] ]

(* key = pre followed by some rest, stated by concatenation *)
Begins(key, pre) == \E n \in 0..Len(key) : key = pre \o SubSeq(key, n + 1, Len(key))

(* the default separators as the documentation gives them *)
DefaultSep(cat) == IF cat \in {"resources", "resource_templates"} THEN <<"+">> ELSE <<"_">>

MutatingOps ==
    {"add_tool", "add_resource", "add_resource_fn", "add_prompt", "mount", "unmount",
     "import_server"}

(* the servers s reaches through the bindings its mount calls installed *)
Bound(s) == {x[3] : x \in {y \in hist.bound : y[1] = s}}

RECURSIVE ReachN(_, _)
ReachN(S, n) == IF n = 0 THEN S ELSE ReachN(S \cup UNION {Bound(t) : t \in S}, n - 1)

MountReach(s) == ReachN(Bound(s), Cardinality(Servers))

-----------------------------------------------------------------------------
(* C1: a mount is live.  Every item in the leaf registry of a server that  *)
(* R has mounted is in what a list call on R returns, under the prefixed   *)
(* key, also when R's cache was populated before the item was added.       *)
MountIsLive ==
    (last.op = "list" /\ last.ok) =>
        \A i \in 1..Len(mounts[last.server]) :
            LET b == mounts[last.server][i]
            IN  \A k \in DOMAIN leaf[b.server][last.cat] :
                    (b.prefix \o separator(b, last.cat) \o k) \in DOMAIN last.value

-----------------------------------------------------------------------------
RECURSIVE MountedPart(_, _, _)
MountedPart(s, cat, i) ==
    IF i = 0 THEN EmptyMap
    ELSE update(MountedPart(s, cat, i - 1),
                mounted_view(mounts[s][i], cat, cache[mounts[s][i].server][cat].value))

(* C2: cache coherence after the server's own mutations.  The first list   *)
(* call on R after an add, mount, unmount or import_server on R returns    *)
(* the mapping recomputed from R's current leaf registry and mount map:    *)
(* what each mounted server lists, prefixed, in mount order, then R's own  *)
(* entries; every local key is there with its item, and every other key    *)
(* begins with the prefix and separator of a binding R still has.          *)
CacheCoherence ==
    (last.op = "list" /\ last.ok /\ last.first) =>
        LET s == last.server
            cat == last.cat
        IN  /\ \A i \in 1..Len(mounts[s]) : cat \in DOMAIN cache[mounts[s][i].server]
            /\ last.value = update(MountedPart(s, cat, Len(mounts[s])), leaf[s][cat])
            /\ \A k \in DOMAIN leaf[s][cat] :
                  k \in DOMAIN last.value /\ last.value[k] = leaf[s][cat][k]
            /\ \A k \in (DOMAIN last.value) \ (DOMAIN leaf[s][cat]) :
                  \E i \in 1..Len(mounts[s]) :
                      Begins(k, mounts[s][i].prefix \o separator(mounts[s][i], cat))

CacheCoherenceWitness ==
    /\ last.op = "list" /\ last.ok /\ last.first
    /\ last.server = "R"
    /\ Len(mounts["R"]) > 0
    /\ leaf["R"][last.cat] # EmptyMap
    /\ Cardinality(DOMAIN last.value) > Cardinality(DOMAIN leaf["R"][last.cat])

-----------------------------------------------------------------------------
(* C3 as stated: after D imported from S, no add, mount, unmount or import *)
(* on S changes what list returns on D or what dispatch resolves on D.     *)
ImportNotLiveAlways ==
    [][ \A pair \in hist.imported :
            (last'.server = pair[2] /\ last'.op \in MutatingOps)
                => View(pair[1])' = View(pair[1]) ]_vars

(* C3: import is not live.  After D imported from S, no add, mount,        *)
(* unmount or import on S changes what list returns on D or what dispatch  *)
(* resolves on D, provided S is not D and no mount call has made S         *)
(* reachable from D.                                                       *)
ImportNotLive ==
    [][ \A pair \in hist.imported :
            ( /\ last'.server = pair[2]
              /\ last'.op \in MutatingOps
              /\ pair[1] # pair[2]
              /\ pair[2] \notin MountReach(pair[1]) )
                => View(pair[1])' = View(pair[1]) ]_vars

ImportNotLiveWitness ==
    \E pair \in hist.imported :
        /\ last.server = pair[2]
        /\ last.op \in MutatingOps
        /\ last.ok
        /\ pair[2] \notin MountReach(pair[1])
        /\ leaf[pair[1]]["tools"] # EmptyMap
        /\ DOMAIN leaf[pair[2]]["tools"] = AddKeys("tools")

-----------------------------------------------------------------------------
-----------------------------------------------------------------------------
(* C5: local precedence in listing.  When a key of R's local leaf registry *)
(* is also the prefixed key of an item of a server R has mounted, the      *)
(* mapping a list call on R returns maps that key to R's local item.       *)
LocalPrecedence ==
    (last.op = "list" /\ last.ok) =>
        LET s == last.server
            cat == last.cat
        IN  \A k \in DOMAIN leaf[s][cat] :
                (\E i \in 1..Len(mounts[s]) :
                    \E k0 \in DOMAIN leaf[mounts[s][i].server][cat] :
                        k = mounts[s][i].prefix \o separator(mounts[s][i], cat) \o k0)
                => (k \in DOMAIN last.value /\ last.value[k] = leaf[s][cat][k])

-----------------------------------------------------------------------------
(* C6: local-first dispatch.  A key held by the server's own manager is    *)
(* resolved there, with no forwarding, also when it begins with a          *)
(* binding's prefix and separator; a key that is not local and is          *)
(* forwarded once reaches the mounted server's item under the key without  *)
(* the prefix and separator.                                               *)
LocalFirstDispatch ==
    (last.op = "dispatch") =>
        LET s == last.server
            kind == last.cat
            key == last.key
            r == last.res
        IN  /\ has_key(leaf[s][kind], key) =>
                  /\ r.server = s
                  /\ r.hops = <<>>
                  /\ r.key = key
                  /\ r.item = leaf[s][kind][key]
                  /\ r.outcome # "NotFoundError"
            /\ (~has_key(leaf[s][kind], key) /\ Len(r.hops) = 1 /\ r.outcome = "ok") =>
                  /\ r.server = r.hops[1].to
                  /\ \E i \in 1..Len(mounts[s]) :
                        /\ mounts[s][i].server = r.server
                        /\ key = mounts[s][i].prefix \o separator(mounts[s][i], kind) \o r.key
                  /\ r.key \in DOMAIN leaf[r.server][kind]
                  /\ r.item = leaf[r.server][kind][r.key]

LocalFirstDispatchWitness ==
    /\ last.op = "dispatch"
    /\ last.res.outcome = "ok"
    /\ last.res.hops = <<>>
    /\ \E i \in 1..Len(mounts[last.server]) :
          \E k0 \in DOMAIN leaf[mounts[last.server][i].server][last.cat] :
              last.key = mounts[last.server][i].prefix
                            \o separator(mounts[last.server][i], last.cat) \o k0

-----------------------------------------------------------------------------
ServerAt(i) == IF i = 1 THEN last.server ELSE last.res.hops[i - 1].to

KeyAt(i) == IF i = 1 THEN last.key ELSE last.res.hops[i - 1].key

(* C7: mount resolution order and recursion.  Each forwarding of a         *)
(* dispatch leaves a server that does not hold the key, goes to the first  *)
(* binding in the mount map's order whose prefix and separator the key     *)
(* begins with, and asks that binding's server for the key without them;   *)
(* the server at the end of the chain answers from its own manager, or     *)
(* holds nothing and has no binding that matches.                          *)
MountResolutionOrder ==
    (last.op = "dispatch") =>
        LET kind == last.cat
            r == last.res
            n == Len(r.hops)
        IN  /\ \A i \in 1..n :
                  LET sv == ServerAt(i)
                      k == KeyAt(i)
                      h == r.hops[i]
                  IN  /\ h.from = sv
                      /\ ~has_key(leaf[sv][kind], k)
                      /\ \E j \in 1..Len(mounts[sv]) :
                            LET b == mounts[sv][j]
                            IN  /\ Begins(k, b.prefix \o separator(b, kind))
                                /\ \A j2 \in 1..(j - 1) :
                                      ~Begins(k, mounts[sv][j2].prefix
                                                    \o separator(mounts[sv][j2], kind))
                                /\ h.to = b.server
                                /\ h.prefix = b.prefix
                                /\ k = b.prefix \o separator(b, kind) \o h.key
            /\ r.server = ServerAt(n + 1)
            /\ r.key = KeyAt(n + 1)
            /\ r.outcome \in {"ok", "NotFoundError"}
            /\ r.outcome = "ok" =>
                  /\ has_key(leaf[r.server][kind], r.key)
                  /\ r.item = leaf[r.server][kind][r.key]
            /\ r.outcome = "NotFoundError" =>
                  /\ ~has_key(leaf[r.server][kind], r.key)
                  /\ \A j \in 1..Len(mounts[r.server]) :
                        ~Begins(r.key, mounts[r.server][j].prefix
                                          \o separator(mounts[r.server][j], kind))

MountResolutionOrderWitness ==
    /\ last.op = "dispatch"
    /\ last.server = "R"
    /\ last.res.outcome = "ok"
    /\ Len(last.res.hops) = 2
    /\ last.res.server = "B"
    /\ last.res.key = Name

-----------------------------------------------------------------------------
(* C8: a dispatch that ends in NotFoundError names the key the caller      *)
(* passed to the call, also when the failing lookup ran in a mounted       *)
(* server after forwarding.                                                *)
NotFoundNamesOriginalKey ==
    (last.op = "dispatch" /\ last.res.outcome = "NotFoundError") =>
        last.res.key = last.key

-----------------------------------------------------------------------------
GivenSep(t, cat) ==
    LET g == CASE cat = "tools" -> t[1]
               [] cat \in {"resources", "resource_templates"} -> t[2]
               [] cat = "prompts" -> t[3]
    IN  IF g = None THEN DefaultSep(cat) ELSE g

(* C9: prefix round trip.  The key a binding lists for k is prefix +       *)
(* separator + k with the category's own separator; match is true of it    *)
(* and strip gives k back, also when k itself begins with prefix +         *)
(* separator; match is true of a key exactly when the key begins with      *)
(* prefix + separator.                                                     *)
PrefixRoundTrip ==
    LET ps == pf.b.prefix \o GivenSep(pf.given, pf.cat)
    IN  /\ pf.listed => pf.key = ps \o pf.orig
        /\ (pf.listed /\ pf.stage \in {"matched", "stripped"}) => pf.matched
        /\ (pf.listed /\ pf.stage = "stripped") => pf.stripped = pf.orig
        /\ pf.stage \in {"matched", "stripped"} => (pf.matched <=> Begins(pf.key, ps))

PrefixRoundTripWitness ==
    /\ pf.stage = "stripped"
    /\ pf.listed
    /\ pf.given # <<None, None, None>>
    /\ pf.b.prefix # <<>>
    /\ Begins(pf.orig, pf.b.prefix \o GivenSep(pf.given, pf.cat))
    /\ pf.stripped = pf.orig

-----------------------------------------------------------------------------
(* C10: expiring cache read.  A get returns the value of the last set of   *)
(* the key when that set was made since the last clear and less than the   *)
(* expiration before the get; otherwise it returns the NOT_FOUND sentinel, *)
(* which no cached value equals.                                           *)
ExpiringRead ==
    (tc.op = "get") =>
        IF tc.key \in DOMAIN tc.log /\ tc.at < tc.log[tc.key].at + Expiration
        THEN tc.out = Found(tc.log[tc.key].value) /\ tc.out # NOT_FOUND
        ELSE tc.out = NOT_FOUND

ExpiringReadWitness ==
    /\ tc.op = "get"
    /\ tc.key \in DOMAIN tc.log
    /\ tc.at = tc.log[tc.key].at + Expiration
    /\ tc.log[tc.key].value = EmptyMap
    /\ tc.out = NOT_FOUND

-----------------------------------------------------------------------------
(* C11: unmount of a prefix with no binding fails with ConfigurationError  *)
(* and leaves the mount map and the cache as they were; unmount of an      *)
(* installed prefix removes exactly that binding, keeps every other        *)
(* binding in its place and clears the cache.                              *)
UnmountAbsentIsConfigurationError ==
    [][ (last'.op = "unmount") =>
            LET s == last'.server
                at == {i \in 1..Len(mounts[s]) : mounts[s][i].prefix = last'.key}
            IN  IF at = {}
                THEN /\ ~last'.ok
                     /\ last'.error = "ConfigurationError"
                     /\ mounts' = mounts
                     /\ cache' = cache
                ELSE /\ last'.ok
                     /\ Len(mounts'[s]) = Len(mounts[s]) - 1
                     /\ \A i \in 1..Len(mounts'[s]) : mounts'[s][i].prefix # last'.key
                     /\ \A i \in 1..Len(mounts[s]) :
                           i \notin at => \E j \in 1..Len(mounts'[s]) : mounts'[s][j] = mounts[s][i]
                     /\ cache'[s] = EmptyMap
                     /\ \A t \in Servers \ {s} : mounts'[t] = mounts[t] /\ cache'[t] = cache[t]
      ]_vars


(* The items a server's own managers hold, over all categories                *)
(* (FastMCP._tool_manager, _resource_manager, _prompt_manager).               *)
Held(s) ==
    UNION {{leaf[s][cat][k] : k \in DOMAIN leaf[s][cat]} : cat \in Cats}

(* C12: exclusive ownership: in every reachable state each item is an entry   *)
(* of at most one server's leaf registries; no item is held by two servers    *)
(* at once.                                                                   *)
ExclusiveOwnership ==
    \A s \in Servers : \A t \in Servers \ {s} : Held(s) \cap Held(t) = {}

-----------------------------------------------------------------------------
RECURSIVE Resolution(_, _)

(* Where a uri resolves from server s: the server's own resource under the  *)
(* uri if it has one, else what the first binding whose prefix and resource *)
(* separator the uri begins with resolves the rest of the uri to; None when *)
(* there is neither.                                                        *)
Resolution(s, uri) ==
    IF uri \in DOMAIN leaf[s]["resources"]
    THEN <<s, uri>>
    ELSE LET hits == {i \in 1..Len(mounts[s]) :
                         Begins(uri, mounts[s][i].prefix
                                        \o separator(mounts[s][i], "resources"))}
         IN  IF hits = {}
             THEN None
             ELSE LET i == CHOOSE i \in hits : \A j \in hits : i <= j
                      b == mounts[s][i]
                      n == Len(b.prefix \o separator(b, "resources"))
                  IN  Resolution(b.server, SubSeq(uri, n + 1, Len(uri)))

(* C13: read_resource(uri) ends in ResourceError exactly when the uri       *)
(* resolves, locally or through matching mounts at any depth, to a resource *)
(* whose read raises, and in NotFoundError exactly when the uri resolves to *)
(* no resource; a failed read is never answered as a success and never as   *)
(* not found.                                                               *)
ReadFailureIsNotNotFound ==
    (last.op = "dispatch" /\ last.cat = "resources") =>
        LET t == Resolution(last.server, last.key)
            r == last.res
        IN  /\ (r.outcome = "ResourceError") <=> (t # None /\ last.raises)
            /\ (r.outcome = "NotFoundError") <=> (t = None)
            /\ (r.outcome = "ok") <=> (t # None /\ ~last.raises)
            /\ t # None => /\ r.server = t[1]
                           /\ r.item = leaf[t[1]]["resources"][t[2]]

ReadFailureIsNotNotFoundWitness ==
    /\ last.op = "dispatch"
    /\ last.cat = "resources"
    /\ last.raises
    /\ last.res.outcome = "ResourceError"
    /\ Len(last.res.hops) = 2
-----------------------------------------------------------------------------
(* SpecGraph: mounts between any two servers, a server on itself and      *)
(* cycles included, with empty prefixes and empty separators.  mount      *)
(* checks neither.                                                         *)

GraphSteps == 4
GraphItems == 1

(* prefix and tool separator of a mount call: c with the default          *)
(* separator, c with none, and neither                                     *)
GraphBindings == {<<<<"c">>, None>>, <<<<"c">>, <<>>>>, <<<<>>, <<>>>>}

RECURSIVE _mcp_dispatch_frames(_, _, _, _)

(* the forwarded call passes the key on as it came *)
_mcp_dispatch_frames_same_key(s, kind, key, frames) ==
    IF <<s, key>> \in frames
    THEN [outcome |-> "RecursionError", server |-> s, key |-> key, hops |-> <<>>]
    ELSE IF has_key(leaf[s][kind], key)
    THEN Local(s, kind, key, FALSE)
    ELSE LET i == FirstMatch(s, kind, key)
         IN  IF i = 0
             THEN Unknown(s, key)
             ELSE LET b == mounts[s][i]
                      sub == _mcp_dispatch_frames(b.server, kind, key,
                                                  frames \cup {<<s, key>>})
                  IN  [sub EXCEPT !.hops =
                          <<[from |-> s, prefix |-> b.prefix, to |-> b.server,
                             key |-> key, cut |-> b.prefix \o separator(b, kind)]>> \o @]

(* _mcp_call_tool with its frames: frames are the calls of this dispatch   *)
(* that have not returned, each a server and the key it was asked for.  A  *)
(* call that is asked what a call below it on the stack was asked repeats  *)
(* it for ever; the interpreter ends that with RecursionError.             *)
_mcp_dispatch_frames(s, kind, key, frames) ==
    IF <<s, key>> \in frames
    THEN [outcome |-> "RecursionError", server |-> s, key |-> key, hops |-> <<>>]
    ELSE IF has_key(leaf[s][kind], key)
    THEN Local(s, kind, key, FALSE)
    ELSE LET i == FirstMatch(s, kind, key)
         IN  IF i = 0
             THEN Unknown(s, key)
             ELSE LET b == mounts[s][i]
                      new_key == strip_prefix(b, kind, key)
                      sub == _mcp_dispatch_frames(b.server, kind, new_key,
                                                  frames \cup {<<s, key>>})
                  IN  [sub EXCEPT !.hops =
                          <<[from |-> s, prefix |-> b.prefix, to |-> b.server,
                             key |-> new_key, cut |-> b.prefix \o separator(b, kind)]>> \o @]

call_tool_frames(s, key) ==
    Answered(s, "tools", key, FALSE, _mcp_dispatch_frames(s, "tools", key, {}))

InitGraph ==
    /\ Constructed([NoItems EXCEPT !["A"]["tools"] = [k \in {Name} |-> 1],
                                   !["B"]["tools"] = [k \in {Name} |-> 2]],
                   {"warn"}, 3, GraphSteps, GraphItems)
    /\ pf = InitPf

NextGraph ==
    \/ \E s \in {"R", "B"} : add_tool(s, Name)
    \/ \E s \in Pair, b \in GraphBindings, t \in Servers :
          mount(s, b[1], t, b[2], None, None)
    \/ \E s \in Pair : unmount(s, <<"c">>)
    \/ import_server("R", <<"c">>, "A", None, None, None)
    \/ \E s \in Pair : list_items(s, "tools")
    \/ \E k \in Keys("tools") : call_tool_frames("R", k)

SpecGraph == InitGraph /\ [][NextGraph]_vars

-----------------------------------------------------------------------------
(* SpecAsync: calls that are suspended.  get_tools awaits each mounted     *)
(* server's listing in turn (server.py:293) and import_server awaits the   *)
(* source's four listings (server.py:812-824); a mounted server may be one *)
(* whose listing waits for I/O, and while a call waits other calls on the  *)
(* same server run.  add, mount and unmount have no await.                 *)

AsyncSteps == 3
AsyncItems == 1

AsyncCats == {"tools", "resources"}

(* the store, left out when the server was mutated since the call began *)
list_finish_if_unchanged(c, cat, tools, t, mutated) ==
    IF mutated THEN c ELSE TimedCache_set(c, cat, tools, t)

(* self._cache.set(cat, tools) before the return: the call does not look   *)
(* at what happened to the cache since its miss                            *)
list_finish(c, cat, tools, t, mutated) == TimedCache_set(c, cat, tools, t)

(* a clear before the loops and none after them *)
import_finish_keeps(c) == c

(* import_server's cache once the four loops are done: self._cache.clear() *)
import_finish(c) == TimedCache_clear

(* mutations of s since the suspended call t began: calls made, less the   *)
(* ticks of the clock                                                      *)
MutationsSince(t) == (t.calls - budget.calls) - (now - t.started)

(* get_tools on s.  A cache hit returns at once, and so does a miss on a   *)
(* server with no mounts; otherwise tools = {}, the loop takes the dict's  *)
(* first binding and the call waits for its listing.  used is the size the *)
(* dict's iterator saw, pos the place of the binding awaited, target the   *)
(* binding object whose get_tools was called.  History: calls, started and *)
(* alone say what has run since, before is what the server's entries       *)
(* merged to when the call began.                                          *)
list_begin(s, cat) ==
    /\ tasks.list.pc = "idle"
    /\ IF TimedCache_get(cache[s], cat, now) # NOT_FOUND \/ Len(mounts[s]) = 0
       THEN list_items(s, cat)
       ELSE /\ tasks' = [tasks EXCEPT !.list =
                           [pc |-> "await", server |-> s, cat |-> cat,
                            used |-> Len(mounts[s]), pos |-> 1, target |-> mounts[s][1],
                            tools |-> EmptyMap, calls |-> budget.calls, started |-> now,
                            alone |-> tasks.import.pc = "idle",
                            before |-> get_items(s, cat, leaf, cache, {}).value]]
            /\ last' = [Event("list_begin", s) EXCEPT !.cat = cat]
            /\ UNCHANGED <<leaf, mounts, cache, now, on_duplicate, expiration, nextId, budget, hist, tc, pf>>

(* The awaited listing arrives: tools.update(server_tools), then the loop  *)
(* asks the dict's iterator for the next binding.  The iterator raises     *)
(* RuntimeError when the dict's size is not the size it saw; it gives the  *)
(* binding now at the next place, or ends the loop, and then               *)
(* tools.update(local), self._cache.set(cat, tools) and the return.        *)
list_resume ==
    LET t == tasks.list
        s == t.server
        r == get_items(t.target.server, t.cat, leaf, cache, {})
        tools == update(t.tools, mounted_view(t.target, t.cat, r.value))
        items == update(tools, leaf[s][t.cat])
    IN  /\ t.pc = "await"
        /\ IF ~r.ok
           THEN /\ tasks' = [tasks EXCEPT !.list = Idle]
                /\ cache' = r.cache
                /\ last' = [Event("list", s) EXCEPT !.cat = t.cat, !.ok = FALSE,
                                                    !.error = "RecursionError"]
           ELSE IF Len(mounts[s]) # t.used
           THEN /\ tasks' = [tasks EXCEPT !.list = Idle]
                /\ cache' = r.cache
                /\ last' = [Event("list", s) EXCEPT !.cat = t.cat, !.ok = FALSE,
                                                    !.error = "RuntimeError"]
           ELSE IF t.pos < Len(mounts[s])
           THEN /\ tasks' = [tasks EXCEPT !.list.pos = t.pos + 1,
                                          !.list.target = mounts[s][t.pos + 1],
                                          !.list.tools = tools]
                /\ cache' = r.cache
                /\ last' = [Event("list_await", s) EXCEPT !.cat = t.cat]
           ELSE /\ tasks' = [tasks EXCEPT !.list = Idle]
                /\ cache' = [r.cache EXCEPT ![s] =
                                list_finish(@, t.cat, items, now, MutationsSince(t) > 0)]
                /\ last' = [Event("list", s) EXCEPT !.cat = t.cat, !.value = items,
                                                    !.suspended = TRUE]
        /\ UNCHANGED <<leaf, mounts, now, on_duplicate, expiration, nextId, budget, hist, tc, pf>>

(* a cancellation that stores what the call has merged so far *)
list_cancel_stores ==
    /\ tasks.list.pc = "await"
    /\ tasks' = [tasks EXCEPT !.list = Idle]
    /\ cache' = [cache EXCEPT ![tasks.list.server] =
                    TimedCache_set(@, tasks.list.cat, tasks.list.tools, now)]
    /\ last' = [Event("list", tasks.list.server) EXCEPT
                   !.cat = tasks.list.cat, !.ok = FALSE, !.error = "CancelledError",
                   !.value = tasks.list.tools]
    /\ UNCHANGED <<leaf, mounts, now, on_duplicate, expiration, nextId, budget, hist, tc, pf>>

(* the caller cancels the list call while it waits: CancelledError is      *)
(* raised at the await and nothing after it runs; the event keeps what the *)
(* call had merged                                                         *)
list_cancel ==
    /\ tasks.list.pc = "await"
    /\ tasks' = [tasks EXCEPT !.list = Idle]
    /\ last' = [Event("list", tasks.list.server) EXCEPT
                   !.cat = tasks.list.cat, !.ok = FALSE, !.error = "CancelledError",
                   !.value = tasks.list.tools]
    /\ UNCHANGED <<leaf, mounts, cache, now, on_duplicate, expiration, nextId, budget, hist, tc, pf>>

(* import_server on s: the separators' defaults, then the call waits for   *)
(* server.get_tools()                                                      *)
import_begin(s, prefix, server) ==
    /\ tasks.import.pc = "idle"
    /\ budget.calls > 0
    /\ budget' = [budget EXCEPT !.calls = @ - 1]
    /\ tasks' = [tasks EXCEPT !.import =
                    [pc |-> "await", server |-> s, source |-> server, prefix |-> prefix,
                     seps |-> import_separators(None, None, None), i |-> 1,
                     listed |-> NoListing]]
    /\ last' = [Event("import_begin", s) EXCEPT !.key = prefix, !.source = server]
    /\ UNCHANGED <<leaf, mounts, cache, now, on_duplicate, expiration, nextId, hist, tc, pf>>

(* A listing of the source arrives: the loop of manager adds for its       *)
(* category, then the wait for the next category's listing or, after the   *)
(* prompts, self._cache.clear() and the return.  An add that raises ends   *)
(* the call there.                                                         *)
import_resume ==
    LET t == tasks.import
        s == t.server
        cat == ImportOrder[t.i]
        r == get_items(t.source, cat, leaf, cache, {})
        listed == [t.listed EXCEPT ![cat] = r.value]
    IN  /\ t.pc = "await"
        /\ IF ~r.ok
           THEN /\ tasks' = [tasks EXCEPT !.import = Idle]
                /\ cache' = r.cache
                /\ last' = [Event("import_server", s) EXCEPT
                               !.key = t.prefix, !.source = t.source, !.ok = FALSE,
                               !.error = "RecursionError", !.listed = t.listed]
                /\ UNCHANGED <<leaf, hist>>
           ELSE \E o \in import_loop(leaf[s][cat],
                                     import_entries(t.prefix, t.seps, cat, r.value),
                                     on_duplicate) :
                  /\ leaf' = [leaf EXCEPT ![s][cat] = o.dict]
                  /\ IF ~o.ok
                     THEN /\ tasks' = [tasks EXCEPT !.import = Idle]
                          /\ cache' = r.cache
                          /\ hist' = hist
                          /\ last' = [Event("import_server", s) EXCEPT
                                         !.key = t.prefix, !.source = t.source, !.ok = FALSE,
                                         !.error = "DuplicateError", !.listed = listed]
                     ELSE IF t.i < Len(ImportOrder)
                     THEN /\ tasks' = [tasks EXCEPT !.import.i = t.i + 1,
                                                    !.import.listed = listed]
                          /\ cache' = r.cache
                          /\ hist' = hist
                          /\ last' = [Event("import_await", s) EXCEPT
                                         !.key = t.prefix, !.source = t.source, !.cat = cat]
                     ELSE /\ tasks' = [tasks EXCEPT !.import = Idle]
                          /\ cache' = [r.cache EXCEPT ![s] = import_finish(@)]
                          /\ hist' = [Mutated(hist, s) EXCEPT
                                         !.imported = @ \cup {<<s, t.source>>}]
                          /\ last' = [Event("import_server", s) EXCEPT
                                         !.key = t.prefix, !.source = t.source,
                                         !.listed = listed, !.dropped = r.cache[s]]
        /\ UNCHANGED <<mounts, now, on_duplicate, expiration, nextId, budget, tc, pf>>

(* the mount map's size is what the suspended list call's iterator saw *)
SizeSeen == tasks.list.pc = "await" => Len(mounts[tasks.list.server]) = tasks.list.used

InitAsync ==
    /\ Constructed([NoItems EXCEPT !["A"] = OneOfEach(1), !["B"] = OneOfEach(5)],
                   {"warn"}, 9, AsyncSteps, AsyncItems)
    /\ pf = InitPf

(* R registers, mounts A and B, unmounts, lists and imports A.  While a    *)
(* list call waits the behaviour follows one change of the mount map's     *)
(* size: the call's next step ends it.                                     *)
NextAsync ==
    \/ \E k \in AddKeys("tools") : add_tool("R", k)
    \/ \E p \in Prefixes, t \in {"A", "B"} :
          /\ (SizeSeen \/ mounted_index(mounts["R"], p) # 0)
          /\ mount("R", p, t, None, None, None)
    \/ \E p \in Prefixes : SizeSeen /\ unmount("R", p)
    \/ \E c \in AsyncCats : list_begin("R", c)
    \/ list_resume
    \/ list_cancel
    \/ import_begin("R", <<"c">>, "A")
    \/ import_resume
    \/ Tick

SpecAsync == InitAsync /\ [][NextAsync]_vars
-----------------------------------------------------------------------------
(* the server a dispatch was at before its i-th forwarding had been there   *)
(* before: the forwarding went round a mount cycle                          *)
Revisits(i) == \E j \in 1..i : ServerAt(j) = last.res.hops[i].to

(* C20 as stated: a dispatch that is forwarded round a mount cycle does not *)
(* terminate; it recurses until the interpreter stops it.                   *)
CycleDispatchUnbounded ==
    (last.op = "dispatch" /\ \E i \in 1..Len(last.res.hops) : Revisits(i)) =>
        last.res.outcome = "RecursionError"

(* C20: mount accepts a binding that makes a server reachable from itself;  *)
(* a dispatch forwarded round the cycle through bindings whose prefix and   *)
(* separator are not both empty is asked for a shorter key at every         *)
(* forwarding and terminates, in an answer or in NotFoundError, after at    *)
(* most as many forwardings as the key has characters; a dispatch recurses  *)
(* without bound only through bindings whose prefix and separator are both  *)
(* empty.                                                                   *)
CycleDispatchTerminates ==
    /\ (last.op = "mount") =>
          /\ last.ok
          /\ \E i \in 1..Len(mounts[last.server]) :
                /\ mounts[last.server][i].prefix = last.key
                /\ mounts[last.server][i].server = last.source
    /\ (last.op = "dispatch") =>
          LET r == last.res
              n == Len(r.hops)
          IN  /\ \A i \in 1..n : KeyAt(i) = r.hops[i].cut \o KeyAt(i + 1)
              /\ (\A i \in 1..n : r.hops[i].cut # <<>>) =>
                    /\ r.outcome \in {"ok", "NotFoundError"}
                    /\ n <= Len(last.key)
              /\ (r.outcome = "RecursionError") =>
                    \E i \in 1..n : \E j \in (i + 1)..(n + 1) :
                        /\ ServerAt(j) = ServerAt(i)
                        /\ KeyAt(j) = KeyAt(i)
                        /\ \A h \in i..(j - 1) : r.hops[h].cut = <<>>

CycleDispatchTerminatesWitness ==
    /\ last.op = "dispatch"
    /\ last.res.outcome = "ok"
    /\ Len(last.res.hops) = 2
    /\ last.res.hops[1].to # last.server
    /\ last.res.hops[2].to = last.server

-----------------------------------------------------------------------------
(* what a dispatch of each key on s would answer now, frames tracked *)
CallsView(s) == [k \in Keys("tools") |-> _mcp_dispatch_frames(s, "tools", k, {})]

(* C17 as stated: mount(prefix, T2) over a binding (prefix, T1) leaves one  *)
(* binding under prefix, to T2, and clears the cache; afterwards no         *)
(* dispatch on the mounting server is forwarded through that prefix to any  *)
(* server but T2 and every listed key is local, or of another binding, or   *)
(* listed by T2; mount leaves the target's leaf registries, mounts and      *)
(* cache as they were.                                                      *)
MountReplacesTargetUntouched ==
    /\ [] ( (last.op = "mount") =>
              LET s == last.server
                  p == last.key
                  t == last.source
                  at == {i \in 1..Len(mounts[s]) : mounts[s][i].prefix = p}
              IN  /\ Cardinality(at) = 1
                  /\ \A i \in at : mounts[s][i].server = t
                  /\ cache[s] = EmptyMap
                  /\ \A k \in Keys("tools") : \A h \in 1..Len(CallsView(s)[k].hops) :
                        LET hop == CallsView(s)[k].hops[h]
                        IN  (hop.from = s /\ hop.prefix = p) => hop.to = t
                  /\ ListView(s, "tools").ok =>
                        \A k \in DOMAIN ListView(s, "tools").value :
                            \/ k \in DOMAIN leaf[s]["tools"]
                            \/ \E i \in 1..Len(mounts[s]) :
                                  LET b == mounts[s][i]
                                      cut == b.prefix \o separator(b, "tools")
                                  IN  /\ Begins(k, cut)
                                      /\ (i \in at => b.server = t)
                                      /\ ListView(b.server, "tools").ok
                                      /\ SubSeq(k, Len(cut) + 1, Len(k))
                                            \in DOMAIN ListView(b.server, "tools").value )
    /\ [][ (last'.op = "mount") =>
              LET s == last'.server
                  t == last'.source
              IN  /\ Len(mounts'[s]) = Len(mounts[s]) + (IF last'.was = "" THEN 1 ELSE 0)
                  /\ \A i \in 1..Len(mounts[s]) :
                        mounts[s][i].prefix # last'.key => mounts'[s][i] = mounts[s][i]
                  /\ leaf'[t] = leaf[t]
                  /\ mounts'[t] = mounts[t]
                  /\ cache'[t] = cache[t]
         ]_vars

(* C17: mount(prefix, T2) over a binding (prefix, T1) leaves one binding    *)
(* under prefix, to T2, in T1's place, and clears the mounting server's     *)
(* cache; afterwards no dispatch on the mounting server is forwarded        *)
(* through that prefix to any server but T2 and every listed key is local,  *)
(* or of another binding, or listed by T2; mount changes no leaf registry,  *)
(* and no mounts and no cache but the mounting server's own, so a target    *)
(* other than the mounting server is left as it was.                        *)
MountReplaces ==
    /\ [] ( (last.op = "mount") =>
              LET s == last.server
                  p == last.key
                  t == last.source
                  at == {i \in 1..Len(mounts[s]) : mounts[s][i].prefix = p}
              IN  /\ Cardinality(at) = 1
                  /\ \A i \in at : mounts[s][i].server = t
                  /\ cache[s] = EmptyMap
                  /\ \A k \in Keys("tools") : \A h \in 1..Len(CallsView(s)[k].hops) :
                        LET hop == CallsView(s)[k].hops[h]
                        IN  (hop.from = s /\ hop.prefix = p) => hop.to = t
                  /\ ListView(s, "tools").ok =>
                        \A k \in DOMAIN ListView(s, "tools").value :
                            \/ k \in DOMAIN leaf[s]["tools"]
                            \/ \E i \in 1..Len(mounts[s]) :
                                  LET b == mounts[s][i]
                                      cut == b.prefix \o separator(b, "tools")
                                  IN  /\ Begins(k, cut)
                                      /\ (i \in at => b.server = t)
                                      /\ ListView(b.server, "tools").ok
                                      /\ SubSeq(k, Len(cut) + 1, Len(k))
                                            \in DOMAIN ListView(b.server, "tools").value )
    /\ [][ (last'.op = "mount") =>
              LET s == last'.server
                  t == last'.source
              IN  /\ Len(mounts'[s]) = Len(mounts[s]) + (IF last'.was = "" THEN 1 ELSE 0)
                  /\ \A i \in 1..Len(mounts[s]) :
                        mounts[s][i].prefix # last'.key => mounts'[s][i] = mounts[s][i]
                  /\ leaf' = leaf
                  /\ \A x \in Servers \ {s} :
                        mounts'[x] = mounts[x] /\ cache'[x] = cache[x]
         ]_vars

MountReplacesWitness ==
    /\ last.op = "mount"
    /\ last.was \notin {"", last.source, last.server}
    /\ last.source # last.server
    /\ leaf[last.was]["tools"] # EmptyMap
    /\ Len(mounts[last.server]) = 2
    /\ mounts[last.server][1].prefix = last.key

-----------------------------------------------------------------------------
(* the servers s has bindings to, and those it reaches through bindings *)
Targets(s) == {mounts[s][i].server : i \in 1..Len(mounts[s])}

RECURSIVE TargetsN(_, _)
TargetsN(S, n) == IF n = 0 THEN S ELSE TargetsN(S \cup UNION {Targets(t) : t \in S}, n - 1)

Reaches(s) == TargetsN(Targets(s), Cardinality(Servers))

(* no mount cycle at s or below it *)
Tree(s) == \A x \in {s} \cup Reaches(s) : x \notin Reaches(x)

RECURSIVE ActualItems(_, _)
RECURSIVE ActualMounted(_, _, _)

(* the live entries of the servers mounted on s, prefixed, in mount order *)
ActualMounted(s, cat, i) ==
    IF i = 0 THEN EmptyMap
    ELSE update(ActualMounted(s, cat, i - 1),
                mounted_view(mounts[s][i], cat, ActualItems(mounts[s][i].server, cat)))

(* the actual current state of s: its own entries merged over the live     *)
(* entries of every server mounted on it, whatever the caches hold         *)
ActualItems(s, cat) == update(ActualMounted(s, cat, Len(mounts[s])), leaf[s][cat])

(* C18: the entries D.import_server(prefix, S) writes are the prefixed      *)
(* images of S's actual current state at the time of the call: S's own      *)
(* entries merged with the live entries of every server mounted on S, also  *)
(* when a server mounted on S was mutated after S last listed.              *)
ImportReadsCurrentState ==
    [][ (last'.op = "import_server" /\ last'.ok /\ Tree(last'.source)) =>
            \A cat \in Cats :
                LET actual == ActualItems(last'.source, cat)
                IN  /\ last'.listed[cat] = actual
                    /\ \A k \in DOMAIN actual :
                          LET pk == last'.key \o DefaultSep(cat) \o k
                          IN  /\ pk \in DOMAIN leaf'[last'.server][cat]
                              /\ leaf'[last'.server][cat][pk] = actual[k]
      ]_vars

-----------------------------------------------------------------------------
(* the step ends the suspended list call other than by cancellation *)
ListEnds == /\ tasks.list.pc = "await"
            /\ tasks'.list.pc = "idle"
            /\ last'.error # "CancelledError"

(* C14: a list call on R that is suspended, awaiting a mounted server's     *)
(* listing, while one mutation of R (an add, a mount, an unmount or an      *)
(* import) takes place, completes without an error and returns R's merged   *)
(* state of before the mutation or R's merged state of after it.            *)
InFlightListPreOrPost ==
    [][ ( /\ ListEnds
          /\ tasks.list.alone
          /\ tasks.import.pc = "idle"
          /\ MutationsSince(tasks.list) = 1 ) =>
            /\ last'.ok
            /\ last'.value \in {tasks.list.before,
                                ActualItems(tasks.list.server, tasks.list.cat)}
      ]_vars

-----------------------------------------------------------------------------
(* C15: the lost invalidation.  A list call that missed the cache and was   *)
(* suspended stores, when it returns, the mapping it merged, under a fresh  *)
(* expiry, whether or not a mutation cleared the cache since the miss; a    *)
(* later list call returns what the cache holds for as long as the entry's  *)
(* expiry lies ahead, and recomputes from the current entries once it does  *)
(* not.  So a mutation that completes between the miss and the store is     *)
(* masked until the stored entry expires.                                   *)
LostInvalidation ==
    [][ /\ (tasks.list.pc = "await" /\ tasks'.list.pc = "idle" /\ last'.ok) =>
              LET s == tasks.list.server
                  cat == tasks.list.cat
              IN  /\ cat \in DOMAIN cache'[s]
                  /\ cache'[s][cat].value = last'.value
                  /\ cache'[s][cat].expires = now + Expiration
        /\ (tasks.list.pc = "idle" /\ tasks'.list.pc = "idle" /\ last'.op = "list") =>
              LET s == last'.server
                  cat == last'.cat
              IN  /\ last'.ok
                  /\ IF cat \in DOMAIN cache[s] /\ cache[s][cat].expires > now
                     THEN last'.value = cache[s][cat].value
                     ELSE last'.value = ActualItems(s, cat)
      ]_vars

LostInvalidationWitness ==
    /\ last.op = "list" /\ last.ok /\ ~last.suspended
    /\ tasks = NoTasks
    /\ hist.imported = {}
    /\ Len(mounts[last.server]) > 0
    /\ last.value # ActualItems(last.server, last.cat)
    /\ now > 0

-----------------------------------------------------------------------------
(* C16: whole-mapping cache writes.  A server's cache entry for a category  *)
(* is written only by a list call on that server at its return, once, with  *)
(* the mapping the call returns: every binding has been visited and the     *)
(* mapping holds what was merged from them and every local entry; a list    *)
(* call that is cancelled or fails while it awaits a mounted server leaves  *)
(* its own server's cache as it was.                                        *)
WholeMappingWrite ==
    [][ /\ \A c \in Cats :
              ( /\ c \in DOMAIN cache'["R"]
                /\ (c \in DOMAIN cache["R"] => cache'["R"][c] # cache["R"][c]) ) =>
                  LET v == cache'["R"][c].value
                      t == tasks.list
                  IN  /\ last'.op = "list" /\ last'.ok
                      /\ last'.server = "R" /\ last'.cat = c
                      /\ v = last'.value
                      /\ tasks'.list.pc = "idle"
                      /\ \A k \in DOMAIN leaf["R"][c] :
                            k \in DOMAIN v /\ v[k] = leaf["R"][c][k]
                      /\ t.pc = "await" =>
                            /\ t.cat = c
                            /\ t.pos = Len(mounts["R"])
                            /\ t.used = Len(mounts["R"])
                            /\ DOMAIN t.tools \subseteq DOMAIN v
                            /\ \A k \in DOMAIN leaf[t.target.server][c] :
                                  (t.target.prefix \o separator(t.target, c) \o k) \in DOMAIN v
        /\ \A x \in Servers \ {"R"} : \A c \in Cats :
              ( /\ c \in DOMAIN cache'[x]
                /\ (c \in DOMAIN cache[x] => cache'[x][c] # cache[x][c]) ) =>
                  cache'[x][c].value = ActualItems(x, c)
        /\ (tasks.list.pc = "await" /\ tasks'.list.pc = "idle" /\ ~last'.ok) =>
              cache'[tasks.list.server] = cache[tasks.list.server]
      ]_vars

WholeMappingWriteWitness ==
    /\ last.op = "list"
    /\ last.error = "CancelledError"
    /\ last.value # EmptyMap
    /\ last.cat \notin DOMAIN cache[last.server]

-----------------------------------------------------------------------------
(* C19: import invalidates once, last.  No step of import_server before     *)
(* its return removes or changes an entry of the destination's cache, and   *)
(* the step that returns comes after the fourth category's loop and leaves  *)
(* the destination's cache empty, also when a list call stored an entry     *)
(* while the import was suspended between two categories.                   *)
ImportClearsOnceLast ==
    [][ (tasks.import.pc = "await" /\ tasks'.import # tasks.import) =>
            LET d == tasks.import.server
            IN  IF tasks'.import.pc = "idle" /\ last'.ok
                THEN /\ tasks.import.i = Len(ImportOrder)
                     /\ cache'[d] = EmptyMap
                ELSE \A c \in DOMAIN cache[d] :
                        c \in DOMAIN cache'[d] /\ cache'[d][c] = cache[d][c]
      ]_vars

ImportClearsOnceLastWitness ==
    /\ last.op = "import_server" /\ last.ok
    /\ cache[last.server] = EmptyMap
    /\ "tools" \in DOMAIN last.dropped
    /\ <<"c", "_", "a">> \in DOMAIN last.dropped["tools"].value
    /\ last.dropped["tools"].value[<<"c", "_", "a">>] = leaf[last.source]["tools"][Name]
    /\ "prompts" \notin DOMAIN last.dropped
-----------------------------------------------------------------------------
(* C21: strip only after match.  Every forwarding of a tool, resource or    *)
(* prompt dispatch strips the key with a binding of the forwarding server   *)
(* whose match for that category is true of the very key the server was     *)
(* asked for, and forwards to that binding's server; strip is applied to no *)
(* key its binding does not match.                                          *)
StripOnlyAfterMatch ==
    (last.op = "dispatch") =>
        \A i \in 1..Len(last.res.hops) :
            LET sv == ServerAt(i)
                k == KeyAt(i)
                h == last.res.hops[i]
                at == mounted_index(mounts[sv], h.prefix)
            IN  /\ at # 0
                /\ mounts[sv][at].server = h.to
                /\ match_key(mounts[sv][at], last.cat, k)
                /\ k = mounts[sv][at].prefix \o separator(mounts[sv][at], last.cat) \o h.key

StripOnlyAfterMatchWitness ==
    /\ last.op = "dispatch"
    /\ last.cat = "resources"
    /\ last.res.outcome = "ok"
    /\ Len(last.res.hops) = 1
    /\ Len(mounts[last.server]) = 2
    /\ ~match_key(mounts[last.server][1], last.cat, last.key)
    /\ last.res.hops[1].prefix = mounts[last.server][2].prefix

-----------------------------------------------------------------------------
(* C22: listing is read-only on registries.  A list call on R changes no    *)
(* leaf registry and no mount map; what it writes are cache entries under   *)
(* the category asked for, in R's cache and in the caches of the servers R  *)
(* reaches through mounts; every cache entry under another category, and    *)
(* every cache of a server R does not reach, is as it was.                  *)
ListingReadOnly ==
    [][ (last'.op = "list") =>
            LET s == last'.server
                cat == last'.cat
            IN  /\ leaf' = leaf
                /\ mounts' = mounts
                /\ on_duplicate' = on_duplicate
                /\ \A x \in Servers :
                      /\ DOMAIN cache[x] \subseteq DOMAIN cache'[x]
                      /\ DOMAIN cache'[x] \subseteq (DOMAIN cache[x]) \cup {cat}
                      /\ \A c \in (DOMAIN cache[x]) \ {cat} : cache'[x][c] = cache[x][c]
                      /\ x \notin ({s} \cup Reaches(s)) => cache'[x] = cache[x]
      ]_vars

ListingReadOnlyWitness ==
    /\ last.op = "list" /\ last.ok
    /\ last.server = "R"
    /\ Len(mounts["R"]) > 0
    /\ Cardinality(DOMAIN cache["R"]) = 2
    /\ \A c \in DOMAIN cache["R"] : c \in DOMAIN cache["A"]
    /\ cache["B"] = EmptyMap

-----------------------------------------------------------------------------
(* C23: listing and dispatch agree.  For every server whose cache is empty  *)
(* and every key its list call returns for tools, resources or prompts, a   *)
(* dispatch of that key on the server resolves and invokes the item the     *)
(* listing maps the key to, whatever the mounts are, mounts whose prefixes  *)
(* overlap included.                                                        *)
ListingDispatchAgree ==
    \A s \in Servers :
        (cache[s] = EmptyMap) =>
            \A kind \in DispatchKinds :
                LET l == ListView(s, kind)
                IN  l.ok =>
                      \A k \in DOMAIN l.value :
                          LET r == _mcp_dispatch(s, kind, k, FALSE)
                          IN  /\ r.outcome = "ok"
                              /\ r.item = l.value[k]

-----------------------------------------------------------------------------
(* SpecTtl: the clock against the caches of a chain of mounts.  Every      *)
(* server is constructed with the same cache_expiration_seconds; R mounts  *)
(* A, A mounts B and A and B register tools while the clock reads 0, and R *)
(* and A are listed at any time after.                                     *)

TtlExpiration == 3
TtlSteps == 5
TtlItems == 1
TtlMaxTime == 7

TtlTick ==
    /\ now < TtlMaxTime
    /\ now' = now + 1
    /\ last' = Event("tick", "")
    /\ UNCHANGED <<leaf, mounts, cache, on_duplicate, expiration, nextId, budget, hist, tc, pf, tasks>>

InitTtl ==
    /\ ConstructedWith(NoItems, {"warn"}, 1, TtlSteps, TtlItems, TtlExpiration)
    /\ pf = InitPf

NextTtl ==
    \/ \E s \in {"A", "B"} : now = 0 /\ add_tool(s, Name)
    \/ now = 0 /\ mount("R", <<"c">>, "A", None, None, None)
    \/ now = 0 /\ mount("A", <<"c">>, "B", None, None, None)
    \/ \E s \in Pair : list_items(s, "tools")
    \/ TtlTick

SpecTtl == InitTtl /\ [][NextTtl]_vars

(* C24: staleness is bounded by one expiration.  With one expiration for    *)
(* every server and no call suspended, a list call on R made more than the  *)
(* expiration after the last mutation of R and of the servers mounted on R, *)
(* directly or through a chain of mounts, returns R's actual merged state,  *)
(* at any depth of the chain and whatever list calls were made since.       *)
StalenessOneExpiration ==
    (last.op = "list" /\ last.ok /\ now > expiration) =>
        last.value = ActualItems(last.server, last.cat)

-----------------------------------------------------------------------------
RECURSIVE ResolvesTo(_, _, _)

(* Where the leaf registries and the mount bindings take a key asked of s:  *)
(* the server's own entry under the key if it has one, else where the first *)
(* binding whose prefix and separator the key begins with takes the rest of *)
(* the key; None when there is neither.  No cache enters.                   *)
ResolvesTo(s, kind, key) ==
    IF key \in DOMAIN leaf[s][kind]
    THEN <<s, key>>
    ELSE LET hits == {i \in 1..Len(mounts[s]) :
                         Begins(key, mounts[s][i].prefix \o separator(mounts[s][i], kind))}
         IN  IF hits = {}
             THEN None
             ELSE LET i == CHOOSE i \in hits : \A j \in hits : i <= j
                      b == mounts[s][i]
                      n == Len(b.prefix \o separator(b, kind))
                  IN  ResolvesTo(b.server, kind, SubSeq(key, n + 1, Len(key)))

(* C25: dispatch is independent of the cache.  A tool, resource or prompt   *)
(* dispatch changes no cache, no leaf registry and no mount map, and its    *)
(* outcome is what the current leaf registries and mount bindings alone     *)
(* determine: the key resolves to an item exactly when they lead to one,    *)
(* and that item is the one invoked.  So an item added to a mounted server  *)
(* is dispatchable through the mounting server at once, whether or not the  *)
(* mounting server's cached listing holds its key.                          *)
DispatchIgnoresCache ==
    /\ [] ( (last.op = "dispatch") =>
              LET t == ResolvesTo(last.server, last.cat, last.key)
                  r == last.res
              IN  /\ (r.outcome = "NotFoundError") <=> (t = None)
                  /\ t # None =>
                        /\ r.outcome = (IF last.raises THEN "ResourceError" ELSE "ok")
                        /\ r.server = t[1]
                        /\ r.item = leaf[t[1]][last.cat][t[2]] )
    /\ [][ (last'.op = "dispatch") =>
              /\ cache' = cache
              /\ leaf' = leaf
              /\ mounts' = mounts
              /\ now' = now
         ]_vars

DispatchIgnoresCacheWitness ==
    /\ last.op = "dispatch"
    /\ last.res.outcome = "ok"
    /\ Len(last.res.hops) = 1
    /\ last.cat \in DOMAIN cache[last.server]
    /\ cache[last.server][last.cat].expires > now
    /\ last.key \notin DOMAIN cache[last.server][last.cat].value
    /\ nextId = last.res.item + 1

-----------------------------------------------------------------------------
(* SpecTree: list and dispatch over any mounts between the three servers,  *)
(* with the cache switched off (cache_expiration_seconds = 0) or on.  A    *)
(* and B hold the tool a; a server may be mounted under two prefixes or    *)
(* reached along two chains, and mount makes cycles as well.               *)

TreeSteps == 4

InitTree ==
    /\ \E seconds \in {0, Expiration} :
          ConstructedWith([NoItems EXCEPT !["A"]["tools"] = [k \in {Name} |-> 1],
                                          !["B"]["tools"] = [k \in {Name} |-> 2]],
                          {"warn"}, 3, TreeSteps, 0, seconds)
    /\ pf = InitPf

NextTree ==
    \/ \E s \in Servers, p \in Prefixes, t \in Servers : mount(s, p, t, None, None, None)
    \/ \E s \in Pair : list_items(s, "tools")
    \/ \E k \in Keys("tools") : call_tool_frames("R", k)

SpecTree == InitTree /\ [][NextTree]_vars

(* how often the binding e was visited *)
Visits(v, e) == Cardinality({j \in 1..Len(v) : v[j] = e})

RECURSIVE Paths(_, _, _)

(* the chains of bindings that lead from s to x, counted, n bindings deep *)
RECURSIVE PathsFrom(_, _, _, _)
PathsFrom(s, x, n, i) ==
    IF i = 0 THEN 0
    ELSE Paths(mounts[s][i].server, x, n - 1) + PathsFrom(s, x, n, i - 1)

Paths(s, x, n) ==
    (IF s = x THEN 1 ELSE 0) + (IF n = 0 THEN 0 ELSE PathsFrom(s, x, n, Len(mounts[s])))

(* a dispatch over a tree ends, each server on its way forwarding once *)
DispatchEnds ==
    (last.op = "dispatch" /\ Tree(last.server)) =>
        LET r == last.res
            n == Len(r.hops)
        IN  /\ r.outcome \in {"ok", "NotFoundError"}
            /\ n <= Cardinality(Reaches(last.server))
            /\ \A i \in 1..n : \A j \in 1..n : i # j => r.hops[i].from # r.hops[j].from
            /\ \A i \in 1..n : r.hops[i].from = ServerAt(i)

(* C26 as stated: with no mount cycle at R or below it, every list call and *)
(* every dispatch on R ends, a dispatch with at most one forwarded call for *)
(* each level and a list call having visited each binding of each server it *)
(* reached at most once.                                                    *)
TreeEndsVisitingOnce ==
    /\ [] DispatchEnds
    /\ [][ (last'.op = "list" /\ Tree(last'.server)) =>
              LET r == get_items(last'.server, last'.cat, leaf, cache, {})
              IN  /\ r.ok /\ last'.ok
                  /\ \A x \in Servers : \A i \in 1..Len(mounts[x]) :
                        Visits(r.visits, <<x, i>>) <= 1
         ]_vars

(* C26: termination without cycles.  With no mount cycle at R or below it,  *)
(* every list call and every dispatch on R ends, a dispatch with at most    *)
(* one forwarded call for each level.  A list call visits each binding of a *)
(* server once for every call of that server's list method that misses the  *)
(* server's cache: never more often than there are chains of bindings from  *)
(* R to the server, and at most once in the call when the expiration is     *)
(* positive, the second call of the server's list method being answered     *)
(* from the entry the first one stored.                                     *)
TreeEnds ==
    /\ [] DispatchEnds
    /\ [][ (last'.op = "list" /\ Tree(last'.server)) =>
              LET r == get_items(last'.server, last'.cat, leaf, cache, {})
              IN  /\ r.ok /\ last'.ok
                  /\ \A x \in Servers : \A i \in 1..Len(mounts[x]) :
                        /\ Visits(r.visits, <<x, i>>)
                              <= Paths(last'.server, x, Cardinality(Servers))
                        /\ expiration > 0 => Visits(r.visits, <<x, i>>) <= 1
         ]_vars

TreeEndsWitness ==
    /\ last.op = "list" /\ last.ok
    /\ Tree(last.server)
    /\ expiration > 0
    /\ \E x \in Reaches(last.server) :
          /\ Paths(last.server, x, Cardinality(Servers)) = 2
          /\ Len(mounts[x]) > 0
    /\ Cardinality(DOMAIN last.value) >= 4

-----------------------------------------------------------------------------
(* the keys import_server gives the entries the source listed for cat *)
ImportedKeys(ev, cat) ==
    {import_key(ev.key, DefaultSeparators, cat, k) : k \in DOMAIN ev.listed[cat]}

(* the place in ImportOrder of the category whose loop raised: the first   *)
(* with an imported key the destination already held                       *)
RaisedAt(ev, held) ==
    LET at == {i \in 1..Len(ImportOrder) :
                  ImportedKeys(ev, ImportOrder[i]) \cap (DOMAIN held[ImportOrder[i]]) # {}}
    IN  IF at = {} THEN 0 ELSE CHOOSE i \in at : \A j \in at : i <= j

(* C27: an import that fails part-way.  When an add raises during          *)
(* import_server, on a key the destination already holds under the         *)
(* rejecting policy, the entries of the categories imported before it are  *)
(* in the destination's leaf registries and are dispatched there, the      *)
(* entry that raised and the entries of the categories after it are not    *)
(* registered, nothing the destination held is changed, and the            *)
(* destination's cache is as it was: a listing cached before the import is *)
(* still what a list call returns.                                         *)
PartialImportStays ==
    /\ [][ (last'.op = "import_server" /\ ~last'.ok) =>
              LET d == last'.server
                  n == RaisedAt(last', leaf[d])
              IN  /\ on_duplicate = "error"
                  /\ n # 0
                  /\ cache'[d] = cache[d]
                  /\ \A i \in 1..Len(ImportOrder) :
                        LET cat == ImportOrder[i]
                            new == ImportedKeys(last', cat)
                        IN  /\ \A k \in DOMAIN leaf[d][cat] :
                                  k \in DOMAIN leaf'[d][cat] /\ leaf'[d][cat][k] = leaf[d][cat][k]
                            /\ i < n => DOMAIN leaf'[d][cat] = (DOMAIN leaf[d][cat]) \cup new
                            /\ i = n => DOMAIN leaf'[d][cat] \subseteq (DOMAIN leaf[d][cat]) \cup new
                            /\ i > n => leaf'[d][cat] = leaf[d][cat]
         ]_vars
    /\ [] ( (last.op = "import_server" /\ ~last.ok) =>
              LET d == last.server
              IN  /\ \A cat \in DOMAIN cache[d] :
                        cache[d][cat].expires > now =>
                            ListView(d, cat) = [ok |-> TRUE, value |-> cache[d][cat].value]
                  /\ \A cat \in DispatchKinds : \A k \in DOMAIN last.listed[cat] :
                        LET pk == import_key(last.key, DefaultSeparators, cat, k)
                            r == _mcp_dispatch(d, cat, pk, FALSE)
                        IN  pk \in DOMAIN leaf[d][cat] =>
                              /\ r.outcome = "ok"
                              /\ r.server = d
                              /\ r.hops = <<>> )

PartialImportStaysWitness ==
    /\ last.op = "import_server" /\ ~last.ok
    /\ "tools" \in DOMAIN cache[last.server]
    /\ cache[last.server]["tools"].expires > now
    /\ <<"c", "_", "a">> \in DOMAIN leaf[last.server]["tools"]
    /\ <<"c", "_", "a">> \in DOMAIN cache[last.server]["tools"].value
    /\ cache[last.server]["tools"].value[<<"c", "_", "a">>]
          # leaf[last.server]["tools"][<<"c", "_", "a">>]
    /\ leaf[last.server]["tools"][<<"c", "_", "a">>] = last.listed["tools"][Name]

====
